---- MODULE Spec2Model ----
(***************************************************************************)
(* Model of the Jules notification e-mail parser (src/email_parser.py).   *)
(* A Python str is a sequence of one-character strings; the regular       *)
(* expressions of the parser are sequences of quantified character        *)
(* classes, matched greedily with backtracking as Python's re does.       *)
(***************************************************************************)
EXTENDS Integers, Sequences, FiniteSets, TLC

VARIABLES email, htmlRaises, linkRaises, pc, body_plain, full_text, scores, result

\* the monitor (src/main.py), the mailbox and the pushes delivered
VARIABLES email_action, arrived, labels, running, mpc, messages, idx, email_data,
          sent, processed, processed_count, slept, pushed, cleanup_failed,
          stopped_at

pvars == <<email, htmlRaises, linkRaises, pc, body_plain, full_text, scores, result>>

mvars == <<email_action, arrived, labels, running, mpc, messages, idx, email_data,
           sent, processed, processed_count, slept, pushed, cleanup_failed,
           stopped_at>>

vars == <<pvars, mvars>>

----------------------------------------------------------------------------
(* Characters and strings *)

Chars(s) == [i \in 1..Len(s) |-> SubSeq(s, i, i)]

Min(a, b) == IF a < b THEN a ELSE b

UpperSeq == Chars("ABCDEFGHIJKLMNOPQRSTUVWXYZ")
LowerSeq == Chars("abcdefghijklmnopqrstuvwxyz")
DigitSeq == Chars("0123456789")

Range(f) == {f[i] : i \in DOMAIN f}

UpperSet == Range(UpperSeq)

\* U+2013 and U+2014, the two non-ASCII characters of the title pattern
EnDash == "EN DASH"
EmDash == "EM DASH"

LowerOf == [c \in UpperSet |-> LowerSeq[CHOOSE i \in 1..26 : UpperSeq[i] = c]]

\* str.lower() on one character
lowerChar(c) == IF c \in UpperSet THEN LowerOf[c] ELSE c

\* str.lower()
lower(s) == [i \in 1..Len(s) |-> lowerChar(s[i])]

\* \s
Space == {" ", "\n", "\t", "\r"}

\* \w
Word == UpperSet \cup Range(LowerSeq) \cup Range(DigitSeq) \cup {"_"}

\* [a-zA-Z0-9_.-]
RepoChar == Word \cup {".", "-"}

\* str.strip()
RECURSIVE lstrip(_)
lstrip(s) == IF s # <<>> /\ Head(s) \in Space THEN lstrip(Tail(s)) ELSE s

RECURSIVE rstrip(_)
rstrip(s) ==
    IF s # <<>> /\ s[Len(s)] \in Space THEN rstrip(SubSeq(s, 1, Len(s) - 1)) ELSE s

strip(s) == rstrip(lstrip(s))

\* "needle in haystack" at position i
StartsAt(needle, s, i) ==
    /\ i + Len(needle) - 1 <= Len(s)
    /\ \A k \in 1..Len(needle) : s[i + k - 1] = needle[k]

\* the Python operator "needle in s"
Contains(needle, s) == \E i \in 1..(Len(s) + 1) : StartsAt(needle, s, i)

\* the least position of a set of positions, 0 when there is none
leastOf(S) == IF S = {} THEN 0 ELSE CHOOSE j \in S : \A k \in S : j <= k

\* str.replace(old, new), left to right, non-overlapping
RECURSIVE replaceFrom(_, _, _, _)
replaceFrom(s, old, new, i) ==
    LET j == leastOf({k \in i..Len(s) : StartsAt(old, s, k)})
    IN  IF j = 0 THEN SubSeq(s, i, Len(s))
        ELSE SubSeq(s, i, j - 1) \o new \o replaceFrom(s, old, new, j + Len(old))

replace(s, old, new) == replaceFrom(s, old, new, 1)

\* str.split(sep) for a one-character separator
RECURSIVE splitFrom(_, _, _)
splitFrom(s, sep, i) ==
    LET j == leastOf({k \in i..Len(s) : s[k] = sep})
    IN  IF j = 0 THEN <<SubSeq(s, i, Len(s))>>
        ELSE <<SubSeq(s, i, j - 1)>> \o splitFrom(s, sep, j + 1)

split(s, sep) == splitFrom(s, sep, 1)

\* sep.join(parts)
RECURSIVE join(_, _)
join(sep, parts) ==
    IF parts = <<>> THEN <<>>
    ELSE IF Len(parts) = 1 THEN parts[1]
    ELSE parts[1] \o sep \o join(sep, Tail(parts))

----------------------------------------------------------------------------
(* Regular expressions.  A compiled pattern is [ic, alts]: ic is the       *)
(* re.IGNORECASE flag and alts the alternatives, tried in order.  An       *)
(* alternative is a sequence of items [cls, neg, lo, hi] (a character      *)
(* class, possibly negated, repeated lo..hi times, greedy) of which the    *)
(* items g1..g2 form group 1.                                              *)

Unbounded == -1

One(cls) == <<[cls |-> cls, neg |-> FALSE, lo |-> 1, hi |-> 1]>>
Opt(cls) == <<[cls |-> cls, neg |-> FALSE, lo |-> 0, hi |-> 1]>>
Star(cls) == <<[cls |-> cls, neg |-> FALSE, lo |-> 0, hi |-> Unbounded]>>
Plus(cls) == <<[cls |-> cls, neg |-> FALSE, lo |-> 1, hi |-> Unbounded]>>
PlusNot(cls) == <<[cls |-> cls, neg |-> TRUE, lo |-> 1, hi |-> Unbounded]>>
Lit(s) == [i \in 1..Len(s) |->
              [cls |-> {SubSeq(s, i, i)}, neg |-> FALSE, lo |-> 1, hi |-> 1]]

Alt(items, g1, g2) == [items |-> items, g1 |-> g1, g2 |-> g2]

\* under re.IGNORECASE the classes are kept in lower case and compared with
\* the lower-cased character of the text
foldItems(items) ==
    [k \in 1..Len(items) |->
        [items[k] EXCEPT !.cls = {lowerChar(d) : d \in items[k].cls}]]

compile(alts, ic) ==
    [ic |-> ic,
     alts |-> IF ic
              THEN [a \in 1..Len(alts) |->
                       [alts[a] EXCEPT !.items = foldItems(alts[a].items)]]
              ELSE alts]

\* a pattern without alternation and without a group
Re(items, ic) == compile(<<Alt(items, 1, 0)>>, ic)

InClass(c, item, ic) ==
    ((IF ic THEN lowerChar(c) ELSE c) \in item.cls) # item.neg

\* length of the longest run of at most hi characters of the item from i
RECURSIVE RunLen(_, _, _, _, _)
RunLen(item, ic, text, i, hi) ==
    IF hi = 0 \/ i > Len(text) THEN 0
    ELSE IF ~InClass(text[i], item, ic) THEN 0
    ELSE 1 + RunLen(item, ic, text, i + 1, hi - 1)

\* positions at which items k.. of the alternative start when matched from
\* position i, followed by the end of the match; <<>> when there is no match
RECURSIVE MatchFrom(_, _, _, _, _), TryCount(_, _, _, _, _, _)
MatchFrom(items, ic, text, k, i) ==
    IF k > Len(items) THEN <<i>>
    ELSE TryCount(items, ic, text, k, i, RunLen(items[k], ic, text, i, items[k].hi))

TryCount(items, ic, text, k, i, n) ==
    IF n < items[k].lo THEN <<>>
    ELSE LET rest == MatchFrom(items, ic, text, k + 1, i + n)
         IN  IF rest # <<>> THEN <<i>> \o rest
             ELSE TryCount(items, ic, text, k, i, n - 1)

NoMatch == [s |-> 0, e |-> 0, gs |-> 0, ge |-> 0]

\* a match at position i: the first alternative (from a) that matches; s..e-1
\* is the match and gs..ge-1 its group 1
RECURSIVE MatchAt(_, _, _, _)
MatchAt(pattern, text, i, a) ==
    IF a > Len(pattern.alts) THEN NoMatch
    ELSE LET alt == pattern.alts[a]
             m == MatchFrom(alt.items, pattern.ic, text, 1, i)
         IN  IF m # <<>>
             THEN [s |-> i, e |-> m[Len(m)], gs |-> m[alt.g1], ge |-> m[alt.g2 + 1]]
             ELSE MatchAt(pattern, text, i, a + 1)

\* re.search from position i: the leftmost match
SearchFrom(pattern, text, i) ==
    LET j == leastOf({k \in i..(Len(text) + 1) : MatchAt(pattern, text, k, 1) # NoMatch})
    IN  IF j = 0 THEN NoMatch ELSE MatchAt(pattern, text, j, 1)

search(pattern, text) == SearchFrom(pattern, text, 1)

group1(m, text) == SubSeq(text, m.gs, m.ge - 1)

\* re.findall: the non-overlapping matches, left to right, as substrings
RECURSIVE findallFrom(_, _, _)
findallFrom(pattern, text, i) ==
    LET m == SearchFrom(pattern, text, i)
    IN  IF m = NoMatch THEN <<>>
        ELSE <<SubSeq(text, m.s, m.e - 1)>>
             \o findallFrom(pattern, text, IF m.e > m.s THEN m.e ELSE m.e + 1)

findall(pattern, text) == findallFrom(pattern, text, 1)

\* len(re.findall(...))
RECURSIVE countFrom(_, _, _)
countFrom(pattern, text, i) ==
    LET m == SearchFrom(pattern, text, i)
    IN  IF m = NoMatch THEN 0
        ELSE 1 + countFrom(pattern, text, IF m.e > m.s THEN m.e ELSE m.e + 1)

\* re.sub(pattern, "", text) for a pattern that matches no empty string
RECURSIVE removeFrom(_, _, _)
removeFrom(pattern, text, i) ==
    LET m == SearchFrom(pattern, text, i)
    IN  IF m = NoMatch THEN SubSeq(text, i, Len(text))
        ELSE SubSeq(text, i, m.s - 1) \o removeFrom(pattern, text, m.e)

\* re.sub("^...", "", text): a pattern anchored at the start matches there
\* or nowhere
removePrefix(pattern, text) ==
    LET m == MatchAt(pattern, text, 1, 1)
    IN  IF m = NoMatch THEN text ELSE SubSeq(text, m.e, Len(text))

----------------------------------------------------------------------------
(* Status classification *)

StatusOrder == <<"completed", "failed", "needs_review", "in_progress", "cancelled">>

STATUS_PATTERNS ==
    [completed |->
        << Re(Lit("completed"), TRUE),
           Re(Lit("finished"), TRUE),
           Re(Lit("done"), TRUE),
           Re(Lit("merged"), TRUE),
           Re(Lit("task") \o Plus(Space) \o Lit("complete"), TRUE),
           Re(Lit("successfully"), TRUE) >>,
     failed |->
        << Re(Lit("failed"), TRUE),
           Re(Lit("error"), TRUE),
           Re(Lit("unable"), TRUE),
           Re(Lit("could") \o Star(Space) \o Lit("n") \o One({"o", "'"}) \o Lit("t"), TRUE),
           Re(Lit("unsuccessful"), TRUE) >>,
     needs_review |->
        << Re(Lit("review"), TRUE),
           Re(Lit("waiting"), TRUE),
           Re(Lit("pending"), TRUE),
           Re(Lit("ready") \o Plus(Space) \o Lit("for") \o Plus(Space) \o Lit("review"), TRUE),
           Re(Lit("pull") \o Plus(Space) \o Lit("request"), TRUE),
           Re(Lit("change") \o Opt({"s"}) \o Plus(Space) \o Lit("ready"), TRUE) >>,
     in_progress |->
        << Re(Lit("started"), TRUE),
           Re(Lit("working"), TRUE),
           Re(Lit("in") \o Plus(Space) \o Lit("progress"), TRUE),
           Re(Lit("processing"), TRUE),
           Re(Lit("running"), TRUE) >>,
     cancelled |->
        << Re(Lit("cancel") \o Opt({"l"}) \o Lit("ed"), TRUE),
           Re(Lit("stopped"), TRUE),
           Re(Lit("aborted"), TRUE) >>]

\* the inner loop of _detect_status: the summed match count of one category
RECURSIVE scoreOf(_, _, _)
scoreOf(patterns, text, k) ==
    IF k > Len(patterns) THEN 0
    ELSE countFrom(patterns[k], text, 1) + scoreOf(patterns, text, k + 1)

\* the dict scores of _detect_status; a category that is not a key has score 0
statusScores(text) ==
    [i \in 1..Len(StatusOrder) |-> scoreOf(STATUS_PATTERNS[StatusOrder[i]], text, 1)]

RECURSIVE maxKeyLast(_, _, _)
maxKeyLast(sc, i, best) ==
    IF i > Len(sc) THEN best
    ELSE IF sc[i] > 0 /\ (best = 0 \/ sc[i] >= sc[best]) THEN maxKeyLast(sc, i + 1, i)
    ELSE maxKeyLast(sc, i + 1, best)

\* max(scores, key=scores.get): the first key, in insertion order, with the
\* largest value
RECURSIVE maxKey(_, _, _)
maxKey(sc, i, best) ==
    IF i > Len(sc) THEN best
    ELSE IF sc[i] > 0 /\ (best = 0 \/ sc[i] > sc[best]) THEN maxKey(sc, i + 1, i)
    ELSE maxKey(sc, i + 1, best)

_detect_status(sc) ==
    IF \A i \in 1..Len(sc) : sc[i] = 0 THEN "unknown"
    ELSE StatusOrder[maxKey(sc, 1, 0)]

----------------------------------------------------------------------------
(* The HTML body.  body_html is kept as the document the parser builds     *)
(* from it: a sequence of elements [tag, hasHref, href, text], tag "text"  *)
(* being a bare string; Render gives back the markup.  The empty markup is *)
(* the empty document.                                                     *)

Render(html) ==
    LET node(n) ==
            IF n.tag = "text" THEN n.text
            ELSE Chars("<") \o Chars(n.tag)
                 \o (IF n.hasHref
                     THEN Chars(" href=\"") \o n.href \o Chars("\"") ELSE <<>>)
                 \o Chars(">") \o n.text \o Chars("</") \o Chars(n.tag) \o Chars(">")
        RECURSIVE cat(_)
        cat(k) == IF k > Len(html) THEN <<>> ELSE node(html[k]) \o cat(k + 1)
    IN  cat(1)

\* soup(["script", "style", "head"]) ... decompose(), then
\* soup.get_text(separator="\n", strip=True)
get_text(html) ==
    LET RECURSIVE strings(_)
        strings(k) ==
            IF k > Len(html) THEN <<>>
            ELSE IF html[k].tag \in {"script", "style", "head"}
                    \/ strip(html[k].text) = <<>>
                 THEN strings(k + 1)
                 ELSE <<strip(html[k].text)>> \o strings(k + 1)
    IN  join(<<"\n">>, strings(1))

\* re.sub(r"\n{3,}", "\n\n", text)
RECURSIVE collapseNewlines(_, _)
collapseNewlines(text, i) ==
    LET j == leastOf({k \in i..Len(text) : text[k] = "\n"})
        n == RunLen(One({"\n"})[1], FALSE, text, j, Unbounded)
    IN  IF j = 0 THEN SubSeq(text, i, Len(text))
        ELSE SubSeq(text, i, j - 1)
             \o (IF n >= 3 THEN <<"\n", "\n">> ELSE SubSeq(text, j, j + n - 1))
             \o collapseNewlines(text, j + n)

EmptyOnError(html, raises) ==
    IF raises THEN <<>>
    ELSE strip(collapseNewlines(get_text(html), 1))

\* raises: the markup parser raised, and the except branch returns html
_html_to_text(html, raises) ==
    IF raises THEN Render(html)
    ELSE strip(collapseNewlines(get_text(html), 1))

----------------------------------------------------------------------------
(* Title *)

TitlePrefixes ==
    << Re(Star(Space) \o Lit("[Jules]") \o Star(Space), TRUE),
       Re(Star(Space) \o Lit("Jules:") \o Star(Space), TRUE),
       Re(Star(Space) \o Lit("Google Jules") \o Star(Space)
          \o One({"-", EnDash, EmDash, ":"}) \o Star(Space), TRUE) >>

FirstPrefixOnly(subject) ==
    LET hit == {k \in 1..3 : MatchAt(TitlePrefixes[k], subject, 1, 1) # NoMatch}
        s == IF hit = {} THEN subject
             ELSE removePrefix(TitlePrefixes[CHOOSE k \in hit : \A j \in hit : k <= j],
                               subject)
    IN  IF strip(s) # <<>> THEN strip(s) ELSE Chars("Jules Notification")

_clean_subject(subject) ==
    LET s1 == removePrefix(TitlePrefixes[1], subject)
        s2 == removePrefix(TitlePrefixes[2], s1)
        s3 == removePrefix(TitlePrefixes[3], s2)
    IN  IF strip(s3) # <<>> THEN strip(s3) ELSE Chars("Jules Notification")

----------------------------------------------------------------------------
(* Repository *)

RepoToken == Plus(RepoChar) \o Lit("/") \o Plus(RepoChar)

repo_patterns ==
    << compile(<< Alt(Lit("repository") \o Plus({":"} \cup Space) \o RepoToken, 12, 14),
                  Alt(Lit("repo") \o Plus({":"} \cup Space) \o RepoToken, 6, 8) >>, TRUE),
       compile(<< Alt(Lit("github.com/") \o RepoToken, 12, 14) >>, TRUE),
       compile(<< Alt(RepoToken \o Plus(Space) \o Lit("repository"), 1, 3) >>, TRUE) >>

subject_pattern == compile(<< Alt(RepoToken, 1, 3) >>, FALSE)

\* the loop over repo_patterns, from pattern k
RECURSIVE firstRepoMatch(_, _)
firstRepoMatch(text, k) ==
    IF k > Len(repo_patterns) THEN NoMatch
    ELSE LET m == search(repo_patterns[k], text)
         IN  IF m # NoMatch THEN m ELSE firstRepoMatch(text, k + 1)

_extract_repo(text, subject) ==
    LET m == firstRepoMatch(text, 1)
    IN  IF m # NoMatch THEN group1(m, text)
        ELSE LET ms == search(subject_pattern, subject)
                 candidate == group1(ms, subject)
             IN  IF ms # NoMatch /\ Contains(<<"/">>, candidate)
                                 /\ ~StartsAt(Chars("http"), candidate, 1)
                 THEN candidate
                 ELSE <<>>

----------------------------------------------------------------------------
(* Summary *)

SummaryCap == 300

entity_pattern == Re(Lit("&") \o Plus(Word) \o Lit(";"), FALSE)

\* s[:n]
prefix(s, n) == SubSeq(s, 1, Min(n, Len(s)))

\* [line.strip() for line in body_text.split("\n") if line.strip()]
nonEmptyLines(body_text) ==
    LET parts == split(body_text, "\n")
        RECURSIVE keep(_)
        keep(k) == IF k > Len(parts) THEN <<>>
                   ELSE IF strip(parts[k]) = <<>> THEN keep(k + 1)
                   ELSE <<strip(parts[k])>> \o keep(k + 1)
    IN  keep(1)

\* the snippet with &#39; and &quot; decoded and the other entities removed
cleanSnippet(snippet) ==
    removeFrom(entity_pattern,
               replace(replace(snippet, Chars("&#39;"), Chars("'")),
                       Chars("&quot;"), Chars("\"")), 1)

firstTwoLines(body_text) == join(<<" ">>, prefix(nonEmptyLines(body_text), 2))

\* " ".join(lines[:3])
firstLines(body_text) == join(<<" ">>, prefix(nonEmptyLines(body_text), 3))

UncappedBody(snippet, body_text) ==
    IF snippet # <<>> THEN prefix(cleanSnippet(snippet), SummaryCap)
    ELSE IF body_text # <<>> THEN firstLines(body_text)
    ELSE Chars("New notification from Jules")

NoFallbackSummary(snippet, body_text) ==
    IF snippet # <<>> THEN prefix(cleanSnippet(snippet), SummaryCap)
    ELSE prefix(firstLines(body_text), SummaryCap)

_build_summary(snippet, body_text) ==
    IF snippet # <<>> THEN prefix(cleanSnippet(snippet), SummaryCap)
    ELSE IF body_text # <<>> THEN prefix(firstLines(body_text), SummaryCap)
    ELSE Chars("New notification from Jules")

----------------------------------------------------------------------------
(* Link *)

url_pattern ==
    Re(Lit("http") \o Opt({"s"}) \o Lit("://")
       \o PlusNot(Space \cup {"<", ">", "\"", "'", ")", "]"}), FALSE)

\* "jules" in s.lower() or "github.com" in s.lower()
isJulesUrl(s) ==
    Contains(Chars("jules"), lower(s)) \/ Contains(Chars("github.com"), lower(s))

RECURSIVE lastJules(_, _)
lastJules(urls, k) ==
    IF k > Len(urls) THEN <<>>
    ELSE IF lastJules(urls, k + 1) # <<>> THEN lastJules(urls, k + 1)
    ELSE IF isJulesUrl(urls[k]) THEN urls[k]
    ELSE <<>>

\* the first element of a list of candidate links that passes the test, or ""
RECURSIVE firstJules(_, _)
firstJules(urls, k) ==
    IF k > Len(urls) THEN <<>>
    ELSE IF isJulesUrl(urls[k]) THEN urls[k]
    ELSE firstJules(urls, k + 1)

\* [link["href"] for link in soup.find_all("a", href=True)]
hrefs(html) ==
    LET RECURSIVE from(_)
        from(k) == IF k > Len(html) THEN <<>>
                   ELSE IF html[k].tag = "a" /\ html[k].hasHref
                        THEN <<html[k].href>> \o from(k + 1)
                        ELSE from(k + 1)
    IN  from(1)

TextScanFirst(html, text, raises) ==
    LET anchor == IF html # <<>> /\ ~raises THEN firstJules(hrefs(html), 1) ELSE <<>>
        url == firstJules(findall(url_pattern, text), 1)
    IN  IF url # <<>> THEN url ELSE anchor

\* raises: the markup parser raised, and the except branch passes
_extract_jules_link(html, text, raises) ==
    LET anchor == IF html # <<>> /\ ~raises THEN firstJules(hrefs(html), 1) ELSE <<>>
    IN  IF anchor # <<>> THEN anchor
        ELSE firstJules(findall(url_pattern, text), 1)

----------------------------------------------------------------------------
(* The e-mails the parser is run on *)

MaxWords == 2
MaxPrefixes == 2
MaxPieces == 2
MaxNodes == 2
MaxRepeat == 7
MaxLines == 4

Email(subject, snippet, body_html, body_text) ==
    [subject |-> subject, snippet |-> snippet,
     body_html |-> body_html, body_text |-> body_text]

\* the sequences of at most n elements of S
SeqsUpTo(S, n) == UNION {[1..k -> S] : k \in 0..n}

RECURSIVE Repeat(_, _)
Repeat(s, n) == IF n = 0 THEN <<>> ELSE s \o Repeat(s, n - 1)

\* status wording, in the body
StatusWords ==
    {Chars("done"), Chars("Error"), Chars("ready for review"), Chars("running"),
     Chars("cancelled"), Chars("note")}

StatusEmails ==
    {Email(Chars("Jules update"), <<>>, <<>>, join(<<" ">>, ws)) :
        ws \in SeqsUpTo(StatusWords, MaxWords)}

\* stacked subject prefixes
PrefixWords ==
    {Chars("[Jules] "), Chars("Jules: "), Chars("Google Jules - "),
     Chars(" google jules") \o <<EmDash>>}

TitleEmails ==
    {Email(join(<<>>, ps) \o rest, <<>>, <<>>, <<>>) :
        ps \in SeqsUpTo(PrefixWords, MaxPrefixes),
        rest \in {<<>>, Chars("build failed")}}

\* repository mentions, in any order
RepoPieces ==
    {Chars("Repository: acme/widgets"), Chars("https://github.com/other/proj"),
     Chars("third/one repository"), Chars("Repository: acme/widgets."),
     Chars("repo x/y"), Chars("and")}

RepoEmails ==
    {Email(subject, <<>>, <<>>, join(<<" ">>, ps)) :
        subject \in {<<>>, Chars("see http://example.com/foo"),
                     Chars("Fix Acme/Widgets now")},
        ps \in SeqsUpTo(RepoPieces, MaxPieces)}

\* long snippets and long bodies
SnippetUnit == Chars("It&#39;s &quot;done&quot; &amp; merged &#38; the branch is in. ")
LineUnit ==
    Chars("  The task ran for a long time and produced a long line of output ")
    \o Chars("that goes on and on and on until the very end. \n\n")

SummaryEmails ==
    {Email(Chars("[Jules] report"), Repeat(SnippetUnit, n), <<>>, <<>>) :
        n \in 0..MaxRepeat}
    \cup {Email(Chars("[Jules] report"), <<>>, <<>>, Repeat(LineUnit, n)) :
            n \in 0..MaxLines}
    \cup {Email(<<>>, SnippetUnit, <<>>, LineUnit)}

\* markup bodies
Node(tag, hasHref, href, text) ==
    [tag |-> tag, hasHref |-> hasHref, href |-> href, text |-> text]

Nodes ==
    {Node("a", TRUE, Chars("https://example.com/docs"), Chars("Docs")),
     Node("a", TRUE, Chars("https://jules.google.com/task/1"),
          Chars("View https://github.com/o/r/pull/7")),
     Node("a", TRUE, Chars("https://GitHub.com/o/r/pull/2"), Chars(" PR ")),
     Node("a", FALSE, <<>>, Chars("top")),
     Node("script", FALSE, <<>>, Chars("go('https://jules.google.com/s')")),
     Node("p", FALSE, <<>>, Chars("Failed, see https://github.com/t/u.\n\n\n\nBye\n"))}

HtmlEmails ==
    {Email(Chars("Jules: update"), <<>>, html, body_text) :
        html \in SeqsUpTo(Nodes, MaxNodes),
        body_text \in {<<>>, Chars("Plain part: https://jules.google.com/plain")}}

\* links in the text parts
LinkEmails ==
    {Email(subject, snippet, html, body_text) :
        subject \in {<<>>, Chars("PR https://github.com/s/t")},
        snippet \in {<<>>, Chars("See https://jules.google.com/task/5")},
        html \in {<<>>, <<Node("a", TRUE, Chars("https://example.com/docs"), Chars("Docs"))>>},
        body_text \in {<<>>, Chars("nothing to see at http://x.org"),
                       Chars("go to http://x.org then <https://Jules.google.com/T/9>, ")
                       \o Chars("or (https://github.com/a/b)")}}

\* the scenarios of the specification
Scenario1 ==
    Email(Chars("[Jules] Task completed for your PR"),
          Chars("Your task finished successfully. Repository: octo/cat. ")
          \o Chars("See https://github.com/octo/cat/pull/5"),
          <<>>, <<>>)

ScenarioEmpty == Email(<<>>, <<>>, <<>>, <<>>)

Scenario10 ==
    Email(Chars("Jules: build failed"), <<>>, <<>>,
          Chars("Error: could not clone repo.\nSee failure log.\nNo link available."))

Emails ==
    StatusEmails \cup TitleEmails \cup RepoEmails \cup SummaryEmails
    \cup HtmlEmails \cup LinkEmails \cup {Scenario1, ScenarioEmpty, Scenario10}

----------------------------------------------------------------------------
(* The parser *)

NoResult ==
    [status |-> "", title |-> <<>>, repo |-> <<>>, summary |-> <<>>,
     link |-> <<>>, raw_subject |-> <<>>]

\* the monitor before it is constructed
MonitorOff ==
    /\ email_action = "trash"
    /\ arrived = {}
    /\ labels = <<>>
    /\ running = FALSE
    /\ mpc = "off"
    /\ messages = <<>>
    /\ idx = 0
    /\ email_data = "none"
    /\ sent = FALSE
    /\ processed = 0
    /\ processed_count = 0
    /\ slept = 0
    /\ pushed = <<>>
    /\ cleanup_failed = {}
    /\ stopped_at = <<>>

Init ==
    /\ MonitorOff
    /\ email \in Emails
    /\ htmlRaises \in (IF email.body_html = <<>> THEN {FALSE} ELSE BOOLEAN)
    /\ linkRaises \in (IF email.body_html = <<>> THEN {FALSE} ELSE BOOLEAN)
    /\ pc = "ready"
    /\ body_plain = <<>>
    /\ full_text = <<>>
    /\ scores = [i \in 1..Len(StatusOrder) |-> 0]
    /\ result = NoResult

parse_jules_email ==
    /\ pc = "ready"
    /\ LET subject == email.subject
           snippet == email.snippet
           body_html == email.body_html
           body_text == email.body_text
           plain == IF body_html # <<>> THEN _html_to_text(body_html, htmlRaises)
                    ELSE body_text
           text == lower(subject \o <<" ">> \o snippet \o <<" ">> \o plain)
           sc == statusScores(text)
       IN  /\ body_plain' = plain
           /\ full_text' = text
           /\ scores' = sc
           /\ result' = [status |-> _detect_status(sc),
                         title |-> _clean_subject(subject),
                         repo |-> _extract_repo(text, subject),
                         summary |-> _build_summary(snippet, plain),
                         link |-> _extract_jules_link(body_html, plain, linkRaises),
                         raw_subject |-> subject]
    /\ pc' = "done"
    /\ UNCHANGED <<email, htmlRaises, linkRaises>>
    /\ UNCHANGED mvars

Next == parse_jules_email

Spec == Init /\ [][Next]_vars

----------------------------------------------------------------------------
(* The monitor: JulesMonitor.run_loop and check_once over a mailbox.  The  *)
(* content of an e-mail plays no part in the loop: parse_jules_email and   *)
(* _build_notification_message are pure and lie between the fetch and the  *)
(* send.                                                                   *)

MaxMsgs == 2
PollInterval == 2
MaxPushes == 2

MsgIds == 1..MaxMsgs

\* the parser is not run on its own in the monitor's specification
ParserOff ==
    /\ email = ScenarioEmpty
    /\ htmlRaises = FALSE
    /\ linkRaises = FALSE
    /\ pc = "off"
    /\ body_plain = <<>>
    /\ full_text = <<>>
    /\ scores = [i \in 1..Len(StatusOrder) |-> 0]
    /\ result = NoResult

\* EMAIL_ACTION after action.lower().strip()
EmailActions == {"trash", "archive", "read", "other"}

\* "from:jules-notifications@google.com is:unread": a message of the sender
\* that is unread; a search leaves out what is in the trash
Matches(id) ==
    id \in arrived /\ "UNREAD" \in labels[id] /\ "TRASH" \notin labels[id]

\* the ids of a set in ascending order
RECURSIVE Ascending(_)
Ascending(S) ==
    IF S = {} THEN <<>>
    ELSE LET m == CHOOSE x \in S : \A y \in S : x <= y
         IN  <<m>> \o Ascending(S \ {m})

\* JulesMonitor.__init__ and start()
MonitorInit ==
    /\ ParserOff
    /\ email_action \in EmailActions
    /\ arrived \in SUBSET MsgIds
    /\ labels = [id \in MsgIds |-> {"UNREAD", "INBOX"}]
    /\ running = TRUE
    /\ mpc = "loop_test"
    /\ messages = <<>>
    /\ idx = 0
    /\ email_data = "none"
    /\ sent = FALSE
    /\ processed = 0
    /\ processed_count = 0
    /\ slept = 0
    /\ pushed = [id \in MsgIds |-> 0]
    /\ cleanup_failed = {}
    /\ stopped_at = <<>>

\* a new notification e-mail reaches the mailbox
Arrive ==
    /\ mpc # "exit"
    /\ \E id \in MsgIds \ arrived : arrived' = arrived \cup {id}
    /\ UNCHANGED <<email_action, labels, running, mpc, messages, idx, email_data,
                   sent, processed, processed_count, slept, pushed, cleanup_failed, stopped_at>>
    /\ UNCHANGED pvars

\* the handler of SIGINT and SIGTERM
_shutdown ==
    /\ mpc # "exit"
    /\ running
    /\ running' = FALSE
    /\ stopped_at' = <<mpc, idx, Len(messages)>>
    /\ UNCHANGED <<email_action, arrived, labels, mpc, messages, idx, email_data,
                   sent, processed, processed_count, slept, pushed, cleanup_failed>>
    /\ UNCHANGED pvars

LoopTestAlways ==
    /\ mpc = "loop_test"
    /\ mpc' = "call"
    /\ UNCHANGED <<email_action, arrived, labels, running, messages, idx, email_data,
                   sent, processed, processed_count, slept, pushed, cleanup_failed, stopped_at>>
    /\ UNCHANGED pvars

\* while self.running:
LoopTest ==
    /\ mpc = "loop_test"
    /\ mpc' = IF running THEN "call" ELSE "exit"
    /\ UNCHANGED <<email_action, arrived, labels, running, messages, idx, email_data,
                   sent, processed, processed_count, slept, pushed, cleanup_failed, stopped_at>>
    /\ UNCHANGED pvars

\* the locals of check_once: messages, the position of the for loop, and
\* email_data, sent and processed
Locals(m, i, d, s, p) ==
    /\ messages' = m
    /\ idx' = i
    /\ email_data' = d
    /\ sent' = s
    /\ processed' = p

\* check_once is left, by return or by an exception, and its locals with it
Return ==
    /\ mpc' = "sleep_check"
    /\ Locals(<<>>, 0, "none", FALSE, 0)

\* the poll cycle starts: get_jules_emails returns the matching messages, or
\* [] when the search raises; with no message check_once returns 0
Search ==
    /\ mpc = "call"
    /\ \E found \in {Ascending({id \in MsgIds : Matches(id)}), <<>>} :
          IF found = <<>> THEN Return
          ELSE mpc' = "fetch" /\ Locals(found, 1, "none", FALSE, 0)
    /\ UNCHANGED <<email_action, arrived, labels, running, processed_count, slept,
                   pushed, cleanup_failed, stopped_at>>
    /\ UNCHANGED pvars

\* the for loop goes to the next message, or check_once returns; d, s and p
\* are email_data, sent and processed at the end of the iteration
Continue(d, s, p) ==
    IF idx < Len(messages)
    THEN mpc' = "fetch" /\ Locals(messages, idx + 1, d, s, p)
    ELSE Return

\* get_email_content: the e-mail, or {} when the fetch raises
Fetch ==
    /\ mpc = "fetch"
    /\ \E data \in {"ok", "none"} :
          IF data = "none" THEN Continue("none", sent, processed)
          ELSE mpc' = "send" /\ Locals(messages, idx, "ok", sent, processed)
    /\ UNCHANGED <<email_action, arrived, labels, running, processed_count, slept,
                   pushed, cleanup_failed, stopped_at>>
    /\ UNCHANGED pvars

SendIgnoringResult ==
    /\ mpc = "send"
    /\ \E ok \in BOOLEAN :
          /\ ok => pushed[messages[idx]] < MaxPushes
          /\ pushed' = IF ok THEN [pushed EXCEPT ![messages[idx]] = @ + 1] ELSE pushed
          /\ mpc' = "cleanup" /\ Locals(messages, idx, email_data, ok, processed)
    /\ UNCHANGED <<email_action, arrived, labels, running, processed_count, slept,
                   cleanup_failed, stopped_at>>
    /\ UNCHANGED pvars

\* send_notification: True on HTTP 200, False on any other answer or error
Send ==
    /\ mpc = "send"
    /\ \E ok \in BOOLEAN :
          /\ ok => pushed[messages[idx]] < MaxPushes
          /\ pushed' = IF ok THEN [pushed EXCEPT ![messages[idx]] = @ + 1] ELSE pushed
          /\ IF ok THEN mpc' = "cleanup" /\ Locals(messages, idx, email_data, TRUE, processed)
             ELSE Continue(email_data, FALSE, processed)
    /\ UNCHANGED <<email_action, arrived, labels, running, processed_count, slept,
                   cleanup_failed, stopped_at>>
    /\ UNCHANGED pvars

\* trash_email, archive_email and mark_as_read when the API call succeeds
Cleaned(action, ls) ==
    IF action = "archive" THEN ls \ {"INBOX"}
    ELSE IF action = "read" THEN ls \ {"UNREAD"}
    ELSE ls \cup {"TRASH"}

\* cleanup_email, whose result check_once does not look at, and the counters
Cleanup ==
    /\ mpc = "cleanup"
    /\ \E api_ok \in BOOLEAN :
          IF api_ok
          THEN /\ labels' = [labels EXCEPT ![messages[idx]] = Cleaned(email_action, @)]
               /\ cleanup_failed' = cleanup_failed
          ELSE /\ labels' = labels
               /\ cleanup_failed' = cleanup_failed \cup {messages[idx]}
    /\ processed_count' = processed_count + 1
    /\ Continue(email_data, sent, processed + 1)
    /\ UNCHANGED <<email_action, arrived, running, slept, pushed, stopped_at>>
    /\ UNCHANGED pvars

RaiseEndsLoop ==
    /\ mpc \in {"call", "fetch", "send"}
    /\ mpc' = "exit"
    /\ Locals(<<>>, 0, "none", FALSE, 0)
    /\ UNCHANGED <<email_action, arrived, labels, running, processed_count, slept,
                   pushed, cleanup_failed, stopped_at>>
    /\ UNCHANGED pvars

\* an exception in check_once, caught by "except Exception" in run_loop: in
\* the statements before the search, before the fetch, or between the fetch
\* and the send (parse, print, _build_notification_message); cleanup_email
\* catches its own exceptions and nothing else follows a send that returned
\* True
Raise ==
    /\ mpc \in {"call", "fetch", "send"}
    /\ Return
    /\ UNCHANGED <<email_action, arrived, labels, running, processed_count, slept,
                   pushed, cleanup_failed, stopped_at>>
    /\ UNCHANGED pvars

\* for _ in range(poll_interval): if not self.running: break
SleepCheck ==
    /\ mpc = "sleep_check"
    /\ IF slept < PollInterval /\ running
       THEN mpc' = "sleeping" /\ slept' = slept
       ELSE mpc' = "loop_test" /\ slept' = 0
    /\ UNCHANGED <<email_action, arrived, labels, running, messages, idx, email_data,
                   sent, processed, processed_count, pushed, cleanup_failed, stopped_at>>
    /\ UNCHANGED pvars

\* time.sleep(1)
Sleep ==
    /\ mpc = "sleeping"
    /\ slept' = slept + 1
    /\ mpc' = "sleep_check"
    /\ UNCHANGED <<email_action, arrived, labels, running, messages, idx, email_data,
                   sent, processed, processed_count, pushed, cleanup_failed, stopped_at>>
    /\ UNCHANGED pvars

\* the steps of run_loop
run_loop ==
    \/ LoopTest
    \/ Search
    \/ Fetch
    \/ Send
    \/ Cleanup
    \/ Raise
    \/ SleepCheck
    \/ Sleep

MonitorNext ==
    \/ LoopTest
    \/ Search
    \/ Fetch
    \/ Send
    \/ Cleanup
    \/ Raise
    \/ SleepCheck
    \/ Sleep
    \/ _shutdown
    \/ Arrive

SpecMonitor == MonitorInit /\ [][MonitorNext]_vars

\* every call of the loop returns and the loop goes on
SpecMonitorFair == MonitorInit /\ [][MonitorNext]_vars /\ WF_vars(run_loop)

----------------------------------------------------------------------------
(* Claims *)

Done == pc = "done"

\* C1: on the first scenario of the specification (subject "[Jules] Task
\* completed for your PR", a snippet naming "Repository: octo/cat." and the
\* pull-request URL, empty bodies) the parser returns status completed, the
\* cleaned title, repo "octo/cat", the pull-request URL as link and the
\* snippet as summary.
C1_Scenario ==
    Done /\ email = Scenario1 =>
        /\ result.status = "completed"
        /\ result.title = Chars("Task completed for your PR")
        /\ result.repo = Chars("octo/cat")
        /\ result.link = Chars("https://github.com/octo/cat/pull/5")
        /\ result.summary = email.snippet

\* the characters that end a URL in the text scan
UrlEnd == Space \cup {"<", ">", "\"", "'", ")", "]"}

\* a URL of the text scan starts at i and extends to j
UrlSpan(text, i, j) ==
    /\ \E scheme \in {Chars("http://"), Chars("https://")} :
          StartsAt(scheme, text, i) /\ j >= i + Len(scheme)
    /\ j <= Len(text)
    /\ \A k \in i..j : text[k] \notin UrlEnd
    /\ j = Len(text) \/ text[j + 1] \in UrlEnd

\* the Jules URL that starts leftmost in text, "" when there is none
LeftmostJulesUrl(text) ==
    LET starts == {i \in 1..Len(text) :
                     StartsAt(Chars("http://"), text, i)
                     \/ StartsAt(Chars("https://"), text, i)}
        spans == {p \in starts \X (1..Len(text)) :
                    UrlSpan(text, p[1], p[2])
                    /\ isJulesUrl(SubSeq(text, p[1], p[2]))}
    IN  IF spans = {} THEN <<>>
        ELSE LET p == CHOOSE p \in spans : \A q \in spans : p[1] <= q[1]
             IN  SubSeq(text, p[1], p[2])

\* no anchor of body_html gives the link
NoAnchorLink ==
    \/ email.body_html = <<>>
    \/ linkRaises
    \/ \A k \in 1..Len(email.body_html) :
          LET n == email.body_html[k]
          IN  ~(n.tag = "a" /\ n.hasHref /\ isJulesUrl(n.href))

ScoreMax == CHOOSE m \in Range(scores) : \A v \in Range(scores) : v <= m

\* C3: the status is the category with the highest score, the earliest of the
\* declared order among those that share it, and it is unknown exactly when
\* every category scores 0.
C3_StatusIsFirstMax ==
    Done =>
        /\ result.status = "unknown" <=> ScoreMax = 0
        /\ ScoreMax > 0 =>
              \E i \in 1..Len(StatusOrder) :
                  /\ result.status = StatusOrder[i]
                  /\ scores[i] = ScoreMax
                  /\ \A j \in 1..(i - 1) : scores[j] < ScoreMax

\* two categories after the first share the highest score
C3_Witness ==
    /\ Done
    /\ scores[1] < ScoreMax
    /\ \E i, j \in 2..Len(StatusOrder) :
          i < j /\ scores[i] = ScoreMax /\ scores[j] = ScoreMax
                /\ result.status = StatusOrder[i]

PrefixPiece(k, subject, i, j) ==
    LET m == MatchAt(TitlePrefixes[k], subject, i, 1)
    IN  IF m = NoMatch THEN j = i - 1 ELSE j = m.e - 1

SummarySource ==
    IF email.snippet # <<>> THEN cleanSnippet(email.snippet)
    ELSE IF body_plain # <<>> THEN firstLines(body_plain)
    ELSE Chars("New notification from Jules")

\* C5: the summary has at most 300 characters and is exactly the first 300
\* characters of a longer text, in each of the three branches.
C5_SummaryCap ==
    Done =>
        /\ Len(result.summary) <= 300
        /\ Len(result.summary) = Min(300, Len(SummarySource))
        /\ \A k \in 1..Len(result.summary) : result.summary[k] = SummarySource[k]

\* a body whose first three lines exceed the cap
C5_Witness ==
    /\ Done
    /\ email.snippet = <<>>
    /\ Len(SummarySource) > 300
    /\ Len(result.summary) = 300

\* C6: a text with the label "repository: acme/widgets" and the URL
\* "github.com/other/proj" gives repo "acme/widgets", in either order.
C6_LabelBeforeUrl ==
    /\ Done
    /\ Contains(Chars("repository: acme/widgets"), full_text)
    /\ Contains(Chars("github.com/other/proj"), full_text)
    => result.repo = Chars("acme/widgets")

\* C7: when no repository pattern matches the text and the only token with a
\* slash in the subject belongs to a URL, the repo is empty.
C7_UrlInSubjectRejected ==
    /\ Done
    /\ email.subject = Chars("see http://example.com/foo")
    /\ firstRepoMatch(full_text, 1) = NoMatch
    => result.repo = <<>>

\* the anchors of body_html that carry a Jules or GitHub href
JulesAnchors ==
    {k \in 1..Len(email.body_html) :
        LET n == email.body_html[k]
        IN  n.tag = "a" /\ n.hasHref /\ isJulesUrl(n.href)}

\* C8: when the markup of body_html is parsed and has an anchor whose href
\* contains "jules" or "github.com", the link is the href of the first such
\* anchor, whatever anchors precede it and whatever URLs the text holds.
C8_FirstMatchingAnchor ==
    Done /\ ~linkRaises /\ JulesAnchors # {} =>
        \E k \in JulesAnchors :
            /\ \A j \in JulesAnchors : k <= j
            /\ result.link = email.body_html[k].href

\* a matching anchor after another anchor, with a different Jules URL in the
\* text parts
C8_Witness ==
    /\ Done /\ ~linkRaises
    /\ \E k \in JulesAnchors :
          /\ k > 1 /\ email.body_html[1].tag = "a" /\ email.body_html[1].hasHref
          /\ result.link = email.body_html[k].href
    /\ LeftmostJulesUrl(body_plain) # <<>>
    /\ LeftmostJulesUrl(body_plain) # result.link

\* C9: an e-mail with every field empty gives status unknown, the fallback
\* title and summary, and empty repo, link and raw_subject.
C9_EmptyEmail ==
    Done /\ email = ScenarioEmpty =>
        result = [status |-> "unknown",
                  title |-> Chars("Jules Notification"),
                  repo |-> <<>>,
                  summary |-> Chars("New notification from Jules"),
                  link |-> <<>>,
                  raw_subject |-> <<>>]

C9_Witness == Done /\ email = ScenarioEmpty /\ result.status = "unknown"

\* C10: subject "Jules: build failed" with the three-line body gives status
\* failed, title "build failed", the three lines joined by single spaces as
\* summary and no link.
C10_Scenario ==
    Done /\ email = Scenario10 =>
        /\ result.status = "failed"
        /\ result.title = Chars("build failed")
        /\ result.summary =
              Chars("Error: could not clone repo. See failure log. No link available.")
        /\ result.link = <<>>

C10_Witness == Done /\ email = Scenario10 /\ result.status = "failed"

Statuses ==
    {"completed", "failed", "needs_review", "in_progress", "cancelled", "unknown"}

\* C11: the parser returns on every e-mail, also when the parsing of body_html
\* raises: the result has the six fields and one of the six statuses; when the
\* normalizer's parse raises the normalized body is the raw body_html, and when
\* the link extractor's parse raises the link is the one the text scan finds.
C11_Total ==
    Done =>
        /\ DOMAIN result = {"status", "title", "repo", "summary", "link", "raw_subject"}
        /\ result.status \in Statuses
        /\ result.raw_subject = email.subject
        /\ htmlRaises => body_plain = Render(email.body_html)
        /\ linkRaises => result.link = LeftmostJulesUrl(body_plain)

\* both parses raise on a body with a Jules anchor: the link comes from the
\* raw markup
C11_Witness ==
    /\ Done /\ htmlRaises /\ linkRaises
    /\ JulesAnchors # {}
    /\ body_plain # <<>>
    /\ result.link # <<>>

(* Claims about the monitor *)

\* the message the for loop of check_once is at
Current == messages[idx]

\* the step is an iteration of check_once that ends at "continue": the fetch
\* returned no data, or the send returned False
Skipped == (Fetch /\ email_data' # "ok") \/ (Send /\ ~sent')

\* C12: in a poll cycle the labels of a message and the two counters change
\* only in the cleanup step of that message, which is reached only from a send
\* that returned True for it; when the fetch returns no data or the send
\* returns False the message keeps its labels and still matches the query, no
\* counter moves, and the loop goes on to the next message of the same list,
\* or check_once returns when there is none.
C12_CleanupOnlyAfterSend ==
    [][
        /\ (labels' # labels \/ processed_count' # processed_count
                \/ processed' > processed) =>
              /\ mpc = "cleanup" /\ email_data = "ok" /\ sent
              /\ pushed[Current] >= 1
              /\ processed_count' = processed_count + 1
              /\ \A id \in MsgIds \ {Current} : labels'[id] = labels[id]
        /\ (mpc' = "cleanup" /\ mpc # "cleanup") =>
              /\ mpc = "send" /\ sent'
              /\ messages' = messages /\ idx' = idx
              /\ pushed'[Current] = pushed[Current] + 1
        /\ Skipped =>
              /\ labels' = labels
              /\ processed_count' = processed_count
              /\ processed' \in {processed, 0}
              /\ pushed' = pushed
              /\ Current \in arrived'
              /\ "UNREAD" \in labels'[Current] /\ "TRASH" \notin labels'[Current]
              /\ IF idx < Len(messages)
                 THEN mpc' = "fetch" /\ messages' = messages /\ idx' = idx + 1
                 ELSE mpc' = "sleep_check"
    ]_vars

\* the first message of the cycle was skipped and is still unread, and the
\* cycle went on: the second message has been pushed and is at its cleanup
C12_Witness ==
    /\ mpc = "cleanup" /\ idx = 2 /\ processed = 0
    /\ Matches(messages[1]) /\ pushed[messages[1]] = 0
    /\ sent /\ pushed[messages[2]] = 1

\* the message has had a successful send and its cleanup call has returned
\* without an API error
CleanedUp(id) ==
    /\ pushed[id] >= 1
    /\ id \notin cleanup_failed
    /\ ~(mpc = "cleanup" /\ Current = id)

\* C13: with the default query no message gets a second successful push: once
\* a message has been pushed and cleaned up, whatever the configured action,
\* it no longer matches the query, and its count of successful pushes stays
\* at one.
C13_NoSecondPush ==
    \A id \in MsgIds :
        /\ CleanedUp(id) => ~Matches(id)
        /\ id \notin cleanup_failed => pushed[id] <= 1

\* check_once is running and is at a message of its list
AtMessage == mpc \in {"fetch", "send", "cleanup"}

====
